---- MODULE Spec2Model ----
(***************************************************************************)
(* hidalgo (src/hidalgo.go): build a static Go executable, render a        *)
(* Dockerfile for it and stream a tar of the build directory into a        *)
(* docker client.  The model follows main() statement by statement; the    *)
(* two external processes of the packaging step and the two copy           *)
(* goroutines that os/exec attaches to them (tar.Stdout is an              *)
(* *io.PipeWriter and sbuild.Stdin an *io.PipeReader, neither an *os.File) *)
(* are separate processes of the model.                                    *)
(***************************************************************************)
EXTENDS Integers, Sequences, FiniteSets, TLC

----------------------------------------------------------------------------
(* Bounds of the model *)

\* most chunks the archiver writes to its standard output in one run
MaxOut == 3

\* capacity, in chunks, of each kernel pipe between a child and its copy goroutine
PipeCap == 1

\* most directives of a configuration file in the runs that start at its
\* validation or at the rendering
MaxDirectives == 3

----------------------------------------------------------------------------
(* Characters of a directive name: 0..9 are the decimal digits, Letter is    *)
(* any character that is not a digit.                                       *)

Letter == 10

Digits == 0 .. 9

\* text of a name, as a sequence of characters
IsDigits(s) == Len(s) > 0 /\ \A i \in 1 .. Len(s) : s[i] \in Digits

\* an element of the parsed configuration file: its rule word and its name
El(r, n) == [rule |-> r, name |-> n]

\* configGrammar: env _, file _, port [0-9]+  (anything else matches no rule)
MatchesGrammar(e) ==
    \/ e.rule = "env"
    \/ e.rule = "file"
    \/ e.rule = "port" /\ IsDigits(e.name)

\* denada.Check(conf, grammar, false): nil iff every element matches a rule
CheckOK(conf) == \A i \in 1 .. Len(conf) : MatchesGrammar(conf[i])

\* config.OfRule(r, false): the elements of rule r, in file order
RECURSIVE OfRule(_, _)
OfRule(conf, r) ==
    IF conf = << >> THEN << >>
    ELSE (IF Head(conf).rule = r THEN << Head(conf).name >> ELSE << >>)
         \o OfRule(Tail(conf), r)

\* value of a digit string in the given base; -1 when a digit is not of the base
RECURSIVE DigitsValue(_, _, _)
DigitsValue(s, base, acc) ==
    IF s = << >> THEN acc
    ELSE IF Head(s) >= base \/ acc < 0 THEN -1
    ELSE DigitsValue(Tail(s), base, acc * base + Head(s))

\* strconv.ParseInt(name, 0, 0) on a name of characters 0..9 and Letter:
\* base 0 takes the base from the prefix, so a leading 0 means octal.
\* The result is -1 where ParseInt returns an error.
ParseInt(s) ==
    IF s = << >> \/ ~IsDigits(s) THEN -1
    ELSE IF Head(s) = 0 THEN DigitsValue(Tail(s), 8, 0)
    ELSE DigitsValue(s, 10, 0)

\* the test of line 104
PortOK(s) == ParseInt(s) >= 1 /\ ParseInt(s) <= 65535

\* the port loop of parseConfig: ports collected up to the first bad one
RECURSIVE PortsOf(_)
PortsOf(names) ==
    IF names = << >> THEN << >>
    ELSE IF ~PortOK(Head(names)) THEN << >>
    ELSE << ParseInt(Head(names)) >> \o PortsOf(Tail(names))

\* whether parseConfig returns an error
ParseFails(conf) ==
    \E i \in 1 .. Len(OfRule(conf, "port")) : ~PortOK(OfRule(conf, "port")[i])

\* the Config parseConfig returns; on a bad port the return of line 105
\* leaves Files unset
parseConfig(conf) ==
    [Env   |-> OfRule(conf, "env"),
     Ports |-> PortsOf(OfRule(conf, "port")),
     Files |-> IF ParseFails(conf) THEN << >> ELSE OfRule(conf, "file")]

\* Config{}
EmptyConfig == [Env |-> << >>, Ports |-> << >>, Files |-> << >>]

----------------------------------------------------------------------------
(* Inputs of a run *)

\* contents of hidalgo.cfg the runs are checked on
ConfFiles ==
    { << >>,
      << El("env", "FOO"), El("env", "BAR"), El("port", <<8, 0, 8, 0>>) >>,
      << El("port", <<8, 0>>), El("port", <<0>>), El("file", "a.txt") >>,
      << El("env", "FOO"), El("volume", "data") >> }

\* command lines: Docker is "" only when given as an empty -d
OptionSets ==
    [Docker : {"", "sdocker"}, Build : {"", "bdir"}, Keep : BOOLEAN, Dry : BOOLEAN,
     From : {"", "golang"}]

\* the Options struct before parser.Parse()
ZeroOptions == [Docker |-> "", Build |-> "", Keep |-> FALSE, Dry |-> FALSE, From |-> ""]

\* names of environment variables, in the byte order of Go's strings
EnvNames == << "BAR", "FOO", "GOARCH", "GOOS" >>

\* the environments hidalgo is started in: FOO and BAR are set or not
HostEnvs ==
    { [n \in {"BAR", "FOO", "GOARCH", "GOOS"} |->
          IF n = "FOO" THEN f ELSE IF n = "BAR" THEN b ELSE ""] :
      f \in {"", "baz"}, b \in {"", "qux"} }

----------------------------------------------------------------------------
(* The Dockerfile: the context of lines 323-348 and dockerTemplate *)

\* os.Getenv(name)
Getenv(h, name) == h[name]

\* os.Setenv(name, value)
Setenv(h, name, value) == [h EXCEPT ![name] = value]

\* env[name] = value on a Go map
MapPut(env, name, value) ==
    [n \in DOMAIN env \cup {name} |-> IF n = name THEN value ELSE env[n]]

\* addIf without its test of line 167
addIfAlways(name, env, h) == MapPut(env, name, Getenv(h, name))

\* addIf(name, env): the map after the call
addIf(name, env, h) ==
    IF Getenv(h, name) # "" THEN MapPut(env, name, Getenv(h, name)) ELSE env

\* lines 325-339: env := map[string]string{}, then addIf for each declared
\* name, in the order of config.Env
RECURSIVE AddAll(_, _, _)
AddAll(names, env, h) ==
    IF names = << >> THEN env
    ELSE AddAll(Tail(names), addIf(Head(names), env, h), h)

EnvContext(names, h) == AddAll(names, << >>, h)

\* a range that visits the keys of the map from last to first
RangeKeysDescending(env) ==
    [i \in 1 .. Len(SelectSeq(EnvNames, LAMBDA n : n \in DOMAIN env)) |->
        SelectSeq(EnvNames, LAMBDA n : n \in DOMAIN env)
            [Len(SelectSeq(EnvNames, LAMBDA n : n \in DOMAIN env)) + 1 - i]]

\* the order in which {{range $key, $value := .env}} visits a map:
\* text/template sorts the keys
RangeKeys(env) == SelectSeq(EnvNames, LAMBDA n : n \in DOMAIN env)

\* lines 301-305: from
FromImage(o) == IF o.From # "" THEN o.From ELSE "scratch"

\* one line of the Dockerfile: its instruction and its one or two arguments
Line(k, a, v) == [kind |-> k, arg |-> a, val |-> v]

\* the ENV lines of the template (lines 42-44)
EnvLines(env) ==
    [i \in 1 .. Len(RangeKeys(env)) |->
        Line("ENV", RangeKeys(env)[i], env[RangeKeys(env)[i]])]

\* a port list with every port kept once, at its first place
RECURSIVE Dedup(_, _)
Dedup(ports, seen) ==
    IF ports = << >> THEN << >>
    ELSE IF Head(ports) \in seen THEN Dedup(Tail(ports), seen)
    ELSE << Head(ports) >> \o Dedup(Tail(ports), seen \cup {Head(ports)})

\* EXPOSE lines for the distinct ports only
ExposeLinesDistinct(ports) ==
    [i \in 1 .. Len(Dedup(ports, {})) |-> Line("EXPOSE", Dedup(ports, {})[i], "")]

\* the EXPOSE lines of the template (lines 47-49)
ExposeLines(ports) == [i \in 1 .. Len(ports) |-> Line("EXPOSE", ports[i], "")]

\* t.Execute(dfile, context): dockerTemplate without its comments and
\* blank lines
Execute(from, env, ports) ==
    << Line("FROM", from, ""), Line("ADD", "server_linux64", "/usr/local/bin/server_linux64") >>
    \o EnvLines(env)
    \o ExposeLines(ports)
    \o << Line("CMD", "/usr/local/bin/server_linux64", "") >>

----------------------------------------------------------------------------
(* Exit sites of main: the status each passes to os.Exit, and the pipeline  *)
(* stage it belongs to.                                                     *)

ExitFlags == 1
ExitPackageName == 1
ExitConfigRead == 1
ExitConfigCheck == 2
ExitTempDir == 2
ExitMkdir == 2
ExitChdir == 2
ExitCompile == 3
ExitDockerfile == 4
ExitRender == 5
ExitDockerCmd == 5
ExitArchive == 3
ExitBuild == 3

Sites ==
    { "flags", "pkgname", "cfgread", "cfgcheck", "tempdir", "mkdir", "chdir",
      "compile", "dockerfile", "render", "dockercmd", "archive", "build" }

ExitStatus(site) ==
    CASE site = "flags"      -> ExitFlags
      [] site = "pkgname"    -> ExitPackageName
      [] site = "cfgread"    -> ExitConfigRead
      [] site = "cfgcheck"   -> ExitConfigCheck
      [] site = "tempdir"    -> ExitTempDir
      [] site = "mkdir"      -> ExitMkdir
      [] site = "chdir"      -> ExitChdir
      [] site = "compile"    -> ExitCompile
      [] site = "dockerfile" -> ExitDockerfile
      [] site = "render"     -> ExitRender
      [] site = "dockercmd"  -> ExitDockerCmd
      [] site = "archive"    -> ExitArchive
      [] site = "build"      -> ExitBuild

StageOf(site) ==
    CASE site = "flags"                          -> "usage"
      [] site = "pkgname"                        -> "resolve"
      [] site \in {"cfgread", "cfgcheck"}        -> "config"
      [] site \in {"tempdir", "mkdir", "chdir"}  -> "workspace"
      [] site = "compile"                        -> "compile"
      [] site \in {"dockerfile", "render"}       -> "render"
      [] site \in {"dockercmd", "archive", "build"} -> "package"

----------------------------------------------------------------------------
(* State *)

VARIABLES
    pc,            \* the statement of main() that runs next
    opts,          \* the Options struct
    conf,          \* denada.ElementList read from hidalgo.cfg
    config,        \* the Config returned by parseConfig
    err,           \* main's variable err ("nil" or the error it holds)
    ws,            \* the build directory: "none", "exists" or "removed"
    deferRemove,   \* whether defer os.RemoveAll(dir) has been registered
    rendered,      \* whether the Dockerfile has been written
    dockerfile,    \* the lines of the Dockerfile
    hostenv,       \* the environment of the process: name -> value, "" when unset
    starts,        \* how often each external command has been started
    logmsg,        \* the last error message logged: its text and its %v argument
    exitCode,      \* the exit status of the process, -1 while it runs
    failSite,      \* the os.Exit call that ended the run, "none" otherwise
    tar,           \* the tar child process
    tarPipe,       \* chunks in the kernel pipe from tar to its copy goroutine
    ocp,           \* the goroutine copying tar's output into writer
    writerClosed,  \* whether writer.Close() has been called
    icp,           \* the goroutine copying reader into the builder's stdin
    sbPipe,        \* chunks in the kernel pipe from that goroutine to the builder
    sbStdinClosed, \* whether the write end of the builder's stdin is closed
    sb,            \* the docker build child process
    terr,          \* result of tar.Wait()
    serr           \* result of sbuild.Wait()

mainVars ==
    << pc, opts, conf, config, err, ws, deferRemove, rendered, dockerfile, hostenv,
       starts, logmsg, exitCode, failSite >>

procVars == << tar, tarPipe, ocp, icp, sbPipe, sbStdinClosed, sb >>

pkgVars == << tar, tarPipe, ocp, writerClosed, icp, sbPipe, sbStdinClosed, sb, terr, serr >>

vars == << mainVars, pkgVars >>

\* a builder with this limit never stops by itself: it reads its standard
\* input to end-of-stream
ReadAll == MaxOut + 1

NoProc == [st |-> "idle", left |-> 0, total |-> 0, status |-> "none"]

NoBuilder == [st |-> "idle", limit |-> ReadAll, got |-> 0, eof |-> FALSE, status |-> "none"]

NoMsg == [text |-> "none", cause |-> "nil"]

Init ==
    /\ pc = "flags"
    /\ opts = ZeroOptions
    /\ conf = << >>
    /\ config = EmptyConfig
    /\ err = "nil"
    /\ ws = "none"
    /\ deferRemove = FALSE
    /\ rendered = FALSE
    /\ dockerfile = << >>
    /\ hostenv \in HostEnvs
    /\ starts = [compile |-> 0, tar |-> 0, sbuild |-> 0]
    /\ logmsg = NoMsg
    /\ exitCode = -1
    /\ failSite = "none"
    /\ tar = NoProc
    /\ tarPipe = 0
    /\ ocp = "idle"
    /\ writerClosed = FALSE
    /\ icp = "idle"
    /\ sbPipe = 0
    /\ sbStdinClosed = FALSE
    /\ sb = NoBuilder
    /\ terr = "unset"
    /\ serr = "unset"

----------------------------------------------------------------------------
(* main(), lines 175-448 *)

\* log.Printf(text, cause) followed by os.Exit: deferred calls do not run
Exit(site, text, cause) ==
    /\ pc' = "exited"
    /\ exitCode' = ExitStatus(site)
    /\ failSite' = site
    /\ logmsg' = [text |-> text, cause |-> cause]

\* main returns: the deferred os.RemoveAll(dir) runs, the status is 0
Return ==
    /\ pc = "return"
    /\ pc' = "exited"
    /\ exitCode' = 0
    /\ ws' = IF deferRemove THEN "removed" ELSE ws
    /\ UNCHANGED << opts, conf, config, err, deferRemove, rendered, dockerfile, hostenv, starts, logmsg,
                    failSite, pkgVars >>

\* lines 178-182: parser.Parse(); go-flags has printed the error itself
ParseFlags ==
    /\ pc = "flags"
    /\ \/ /\ \E o \in OptionSets : opts' = o
          /\ pc' = "pkgname"
          /\ UNCHANGED << exitCode, failSite, logmsg >>
       \/ /\ pc' = "exited"
          /\ exitCode' = ExitStatus("flags")
          /\ failSite' = "flags"
          /\ UNCHANGED << opts, logmsg >>
    /\ UNCHANGED << conf, config, err, ws, deferRemove, rendered, dockerfile, hostenv, starts, pkgVars >>

\* lines 193-197: packageName(pdir)
PackageName ==
    /\ pc = "pkgname"
    /\ \/ /\ err' = "nil"
          /\ pc' = "cfgread"
          /\ UNCHANGED << exitCode, failSite, logmsg >>
       \/ /\ err' = "pkgname"
          /\ Exit("pkgname", "Error determining package name", "pkgname")
    /\ UNCHANGED << opts, conf, config, ws, deferRemove, rendered, dockerfile, hostenv, starts, pkgVars >>

\* lines 204-228: the grammar constant parses; hidalgo.cfg is read when present.
\* The err of lines 218-224 is the one declared by the if statement.
ReadConfig ==
    /\ pc = "cfgread"
    /\ \/ /\ conf' = << >>
          /\ pc' = "cfgcheck"
          /\ UNCHANGED << exitCode, failSite, logmsg >>
       \/ /\ \E c \in ConfFiles : conf' = c
          /\ pc' = "cfgcheck"
          /\ UNCHANGED << exitCode, failSite, logmsg >>
       \/ /\ Exit("cfgread", "Error reading configuration file", "parsefile")
          /\ UNCHANGED conf
    /\ UNCHANGED << opts, config, err, ws, deferRemove, rendered, dockerfile, hostenv, starts, pkgVars >>

\* lines 232-236: denada.Check(conf, grammar, false)
CheckConfig ==
    /\ pc = "cfgcheck"
    /\ IF CheckOK(conf)
       THEN /\ err' = "nil"
            /\ pc' = "cfgparse"
            /\ UNCHANGED << exitCode, failSite, logmsg >>
       ELSE /\ err' = "check"
            /\ Exit("cfgcheck", "Error in configuration", "check")
    /\ UNCHANGED << opts, conf, config, ws, deferRemove, rendered, dockerfile, hostenv, starts, pkgVars >>

\* lines 240-243: config, err := parseConfig(conf); the error is logged and
\* main goes on with the Config returned beside it
ParseConfig ==
    /\ pc = "cfgparse"
    /\ config' = parseConfig(conf)
    /\ IF ParseFails(conf)
       THEN /\ err' = "port"
            /\ logmsg' = [text |-> "Error in configuration", cause |-> "port"]
            /\ pc' = "workdir"
            /\ UNCHANGED << exitCode, failSite >>
       ELSE /\ err' = "nil"
            /\ pc' = "workdir"
            /\ UNCHANGED << exitCode, failSite, logmsg >>
    /\ UNCHANGED << opts, conf, ws, deferRemove, rendered, dockerfile, hostenv, starts, pkgVars >>

\* lines 246-266: the temporary directory (with its deferred removal) or the
\* directory of --builddir
WorkDir ==
    /\ pc = "workdir"
    /\ IF opts.Build = ""
       THEN \/ /\ err' = "nil"
               /\ ws' = "exists"
               /\ deferRemove' = TRUE
               /\ pc' = "chdir"
               /\ UNCHANGED << exitCode, failSite, logmsg >>
            \/ /\ err' = "tempdir"
               /\ Exit("tempdir", "Error: Cannot create temporary directory", "none")
               /\ UNCHANGED << ws, deferRemove >>
       ELSE \/ /\ err' = "nil"
               /\ ws' = "exists"
               /\ pc' = "chdir"
               /\ UNCHANGED << deferRemove, exitCode, failSite, logmsg >>
            \/ /\ err' = "mkdir"
               /\ Exit("mkdir", "Error: Unable to create directory", "mkdir")
               /\ UNCHANGED << ws, deferRemove >>
    /\ UNCHANGED << opts, conf, config, rendered, dockerfile, hostenv, starts, pkgVars >>

\* lines 273-277: os.Chdir(dir)
Chdir ==
    /\ pc = "chdir"
    /\ \/ /\ err' = "nil"
          /\ pc' = "compile"
          /\ UNCHANGED << exitCode, failSite, logmsg >>
       \/ /\ err' = "chdir"
          /\ Exit("chdir", "Error: Cannot change to build directory", "none")
    /\ UNCHANGED << opts, conf, config, ws, deferRemove, rendered, dockerfile, hostenv, starts, pkgVars >>

\* lines 288-294 with the build run again after a failure
CompileRetried ==
    /\ pc = "compile"
    /\ starts' = [starts EXCEPT !.compile = @ + 1]
    /\ \/ /\ err' = "nil"
          /\ pc' = "dockerfile"
       \/ /\ err' = "compile"
          /\ pc' = "compile"
    /\ hostenv' = Setenv(Setenv(hostenv, "GOOS", "linux"), "GOARCH", "amd64")
    /\ UNCHANGED << exitCode, failSite, logmsg >>
    /\ UNCHANGED << opts, conf, config, ws, deferRemove, rendered, dockerfile, pkgVars >>

\* lines 284-294: go build -o server_linux64 name
Compile ==
    /\ pc = "compile"
    /\ starts' = [starts EXCEPT !.compile = @ + 1]
    /\ \/ /\ err' = "nil"
          /\ pc' = "dockerfile"
          /\ UNCHANGED << exitCode, failSite, logmsg >>
       \/ /\ err' = "compile"
          /\ Exit("compile", "Error running cmd", "compile")
    /\ hostenv' = Setenv(Setenv(hostenv, "GOOS", "linux"), "GOARCH", "amd64")
    /\ UNCHANGED << opts, conf, config, ws, deferRemove, rendered, dockerfile, pkgVars >>

\* lines 308-320: the template constant parses; os.Create("Dockerfile")
CreateDockerfile ==
    /\ pc = "dockerfile"
    /\ \/ /\ err' = "nil"
          /\ pc' = "render"
          /\ UNCHANGED << exitCode, failSite, logmsg >>
       \/ /\ err' = "create"
          /\ Exit("dockerfile", "Unable to create Dockerfile", "create")
    /\ UNCHANGED << opts, conf, config, ws, deferRemove, rendered, dockerfile, hostenv, starts, pkgVars >>

\* lines 323-358: the context is built (env from the addIf loop, ports from
\* the Config, from from the options) and t.Execute(dfile, context) writes the
\* Dockerfile; when it fails what it wrote is not looked at again
Render ==
    /\ pc = "render"
    /\ \/ /\ err' = "nil"
          /\ rendered' = TRUE
          /\ dockerfile' =
                Execute(FromImage(opts), EnvContext(config.Env, hostenv), config.Ports)
          /\ pc' = "dockercmd"
          /\ UNCHANGED << exitCode, failSite, logmsg >>
       \/ /\ err' = "execute"
          /\ Exit("render", "Error rendering template", "execute")
          /\ UNCHANGED << rendered, dockerfile >>
    /\ UNCHANGED << opts, conf, config, ws, deferRemove, hostenv, starts, pkgVars >>

\* the test of line 371 on dcmd
DockerCmdMissing(dcmd) == dcmd = ""

\* lines 370-375: dcmd := Options.Docker
DockerCmd ==
    /\ pc = "dockercmd"
    /\ IF DockerCmdMissing(opts.Docker)
       THEN Exit("dockercmd", "Missing Docker command", "none")
       ELSE /\ pc' = "drycheck"
            /\ UNCHANGED << exitCode, failSite, logmsg >>
    /\ UNCHANGED << opts, conf, config, err, ws, deferRemove, rendered, dockerfile, hostenv, starts, pkgVars >>

\* the test of line 382 without the negation
RunsBuildWhenDry(o) == o.Dry

\* the test of line 382: whether the docker build runs
RunsBuild(o) == ~o.Dry

\* line 382: if !Options.Dry { ... }
DryCheck ==
    /\ pc = "drycheck"
    /\ pc' = IF RunsBuild(opts) THEN "tar_start" ELSE "return"
    /\ UNCHANGED << opts, conf, config, err, ws, deferRemove, rendered, dockerfile, hostenv, starts, logmsg,
                    exitCode, failSite, pkgVars >>

----------------------------------------------------------------------------
(* Packaging, lines 389-446.  exec.Cmd starts one goroutine per stream that *)
(* is not an *os.File: ocp runs io.Copy(writer, tar's stdout pipe) and icp  *)
(* runs io.Copy(builder's stdin pipe, reader) and then closes that pipe.    *)
(* io.Pipe has no buffer: a Write on writer returns when a Read on reader   *)
(* has taken the data.  Cmd.Wait returns when the child has exited and the  *)
(* command's goroutines have returned.                                      *)

\* line 419: tar.Start(); its result is dropped
TarStart ==
    /\ pc = "tar_start"
    /\ starts' = [starts EXCEPT !.tar = @ + 1]
    /\ \/ /\ \E n \in 0 .. MaxOut :
                tar' = [st |-> "run", left |-> n, total |-> n, status |-> "none"]
          /\ ocp' = "read"
       \/ /\ tar' = [tar EXCEPT !.st = "nostart"]
          /\ UNCHANGED ocp
    /\ pc' = "sb_start"
    /\ UNCHANGED << opts, conf, config, err, ws, deferRemove, rendered, dockerfile, hostenv, logmsg,
                    exitCode, failSite >>
    /\ UNCHANGED << tarPipe, writerClosed, icp, sbPipe, sbStdinClosed, sb, terr, serr >>

\* line 422: sbuild.Start(); its result is dropped
SbuildStart ==
    /\ pc = "sb_start"
    /\ starts' = [starts EXCEPT !.sbuild = @ + 1]
    /\ \/ /\ \E k \in 0 .. ReadAll :
                sb' = [st |-> "run", limit |-> k, got |-> 0, eof |-> FALSE,
                       status |-> "none"]
          /\ icp' = "read"
       \/ /\ sb' = [sb EXCEPT !.st = "nostart"]
          /\ UNCHANGED icp
    /\ pc' = "tar_wait"
    /\ UNCHANGED << opts, conf, config, err, ws, deferRemove, rendered, dockerfile, hostenv, logmsg,
                    exitCode, failSite >>
    /\ UNCHANGED << tar, tarPipe, ocp, writerClosed, sbPipe, sbStdinClosed, terr, serr >>

\* what Cmd.Wait returns for a child in the given state
WaitError(p) ==
    IF p.st = "nostart" THEN "notstarted"
    ELSE IF p.status = "fail" THEN "exit"
    ELSE "nil"

\* tar.Wait() returning without waiting for the child or its goroutine
TarWaitNoWait == TRUE

\* tar.Wait() can return: tar was never started, or it has exited and the
\* goroutine copying its output has returned
TarWaitReturns ==
    \/ tar.st = "nostart"
    \/ tar.st = "exited" /\ ocp = "done"

\* sbuild.Wait() can return: likewise, with the goroutine feeding its stdin
SbuildWaitReturns ==
    \/ sb.st = "nostart"
    \/ sb.st = "exited" /\ icp = "done"

\* line 425: terr := tar.Wait()
TarWait ==
    /\ pc = "tar_wait"
    /\ TarWaitReturns
    /\ terr' = WaitError(tar)
    /\ pc' = "close"
    /\ UNCHANGED << opts, conf, config, err, ws, deferRemove, rendered, dockerfile, hostenv, starts, logmsg,
                    exitCode, failSite >>
    /\ UNCHANGED << procVars, writerClosed, serr >>

\* line 428 left out: main goes on to sbuild.Wait() with writer open
WriterCloseOmitted ==
    /\ pc = "close"
    /\ pc' = "sb_wait"
    /\ UNCHANGED << opts, conf, config, err, ws, deferRemove, rendered, dockerfile, hostenv, starts, logmsg,
                    exitCode, failSite >>
    /\ UNCHANGED << procVars, writerClosed, terr, serr >>

\* line 428 run only when the archiver succeeded
WriterCloseOnSuccess ==
    /\ pc = "close"
    /\ writerClosed' = (terr = "nil")
    /\ pc' = "sb_wait"
    /\ UNCHANGED << opts, conf, config, err, ws, deferRemove, rendered, dockerfile, hostenv, starts, logmsg,
                    exitCode, failSite >>
    /\ UNCHANGED << procVars, terr, serr >>

\* line 428: writer.Close()
WriterClose ==
    /\ pc = "close"
    /\ writerClosed' = TRUE
    /\ pc' = "sb_wait"
    /\ UNCHANGED << opts, conf, config, err, ws, deferRemove, rendered, dockerfile, hostenv, starts, logmsg,
                    exitCode, failSite >>
    /\ UNCHANGED << procVars, terr, serr >>

\* line 431: serr := sbuild.Wait()
SbuildWait ==
    /\ pc = "sb_wait"
    /\ SbuildWaitReturns
    /\ serr' = WaitError(sb)
    /\ pc' = "check"
    /\ UNCHANGED << opts, conf, config, err, ws, deferRemove, rendered, dockerfile, hostenv, starts, logmsg,
                    exitCode, failSite >>
    /\ UNCHANGED << procVars, writerClosed, terr >>

\* the two tests of lines 434 and 438 in the other order
ReportedBuildFirst(t, s) ==
    IF s # "nil" THEN "build"
    ELSE IF t # "nil" THEN "archive"
    ELSE "none"

\* lines 434-441: which of the two results main reports
Reported(t, s) ==
    IF t # "nil" THEN "archive"
    ELSE IF s # "nil" THEN "build"
    ELSE "none"

\* lines 434-446: the archive error is logged with terr, the build error with
\* main's err (line 439 prints err, not serr)
CheckErrors ==
    /\ pc = "check"
    /\ CASE Reported(terr, serr) = "archive" ->
                Exit("archive", "Error generating archive", terr)
         [] Reported(terr, serr) = "build" ->
                Exit("build", "Error performing build", err)
         [] OTHER ->
                /\ pc' = "return"
                /\ UNCHANGED << exitCode, failSite, logmsg >>
    /\ UNCHANGED << opts, conf, config, err, ws, deferRemove, rendered, dockerfile, hostenv, starts, pkgVars >>

Main ==
    \/ ParseFlags
    \/ PackageName
    \/ ReadConfig
    \/ CheckConfig
    \/ ParseConfig
    \/ WorkDir
    \/ Chdir
    \/ Compile
    \/ CreateDockerfile
    \/ Render
    \/ DockerCmd
    \/ DryCheck
    \/ TarStart
    \/ SbuildStart
    \/ TarWait
    \/ WriterClose
    \/ SbuildWait
    \/ CheckErrors
    \/ Return

----------------------------------------------------------------------------
(* The tar child: tar zcf - . *)

\* tar writes a chunk to its standard output; blocks while the pipe is full
TarWrite ==
    /\ tar.st = "run"
    /\ tar.left > 0
    /\ tarPipe < PipeCap
    /\ tar' = [tar EXCEPT !.left = @ - 1]
    /\ tarPipe' = tarPipe + 1
    /\ UNCHANGED << mainVars, ocp, writerClosed, icp, sbPipe, sbStdinClosed, sb, terr, serr >>

\* tar has written what it had to write and exits, with status 0 or not
TarExit ==
    /\ tar.st = "run"
    /\ tar.left = 0
    /\ \E s \in {"ok", "fail"} : tar' = [tar EXCEPT !.st = "exited", !.status = s]
    /\ UNCHANGED << mainVars, tarPipe, ocp, writerClosed, icp, sbPipe, sbStdinClosed, sb,
                    terr, serr >>

Tar == TarWrite \/ TarExit

(* The goroutine of tar.Stdout = writer (line 412) *)

\* it reads a chunk from tar's pipe
OcpRead ==
    /\ ocp = "read"
    /\ tarPipe > 0
    /\ tarPipe' = tarPipe - 1
    /\ ocp' = "write"
    /\ UNCHANGED << mainVars, tar, writerClosed, icp, sbPipe, sbStdinClosed, sb, terr, serr >>

\* it reads end-of-file from tar's pipe (tar has exited) and returns
OcpEOF ==
    /\ ocp = "read"
    /\ tarPipe = 0
    /\ tar.st = "exited"
    /\ ocp' = "done"
    /\ UNCHANGED << mainVars, tar, tarPipe, writerClosed, icp, sbPipe, sbStdinClosed, sb,
                    terr, serr >>

\* writer.Write meets reader.Read: the chunk passes from ocp to icp
PipeTransfer ==
    /\ ocp = "write"
    /\ icp = "read"
    /\ ~writerClosed
    /\ ocp' = "read"
    /\ icp' = "write"
    /\ UNCHANGED << mainVars, tar, tarPipe, writerClosed, sbPipe, sbStdinClosed, sb,
                    terr, serr >>

OutCopier == OcpRead \/ OcpEOF \/ PipeTransfer

(* The goroutine of sbuild.Stdin = reader (line 415) *)

\* it writes the chunk it holds to the builder's stdin pipe
IcpWrite ==
    /\ icp = "write"
    /\ sb.st = "run"
    /\ sbPipe < PipeCap
    /\ sbPipe' = sbPipe + 1
    /\ icp' = "read"
    /\ UNCHANGED << mainVars, tar, tarPipe, ocp, writerClosed, sbStdinClosed, sb, terr, serr >>

\* the builder has exited: the write fails with EPIPE, io.Copy returns, the
\* goroutine closes the pipe and returns; nothing reads reader any more
IcpBrokenPipe ==
    /\ icp = "write"
    /\ sb.st = "exited"
    /\ icp' = "done"
    /\ sbStdinClosed' = TRUE
    /\ UNCHANGED << mainVars, tar, tarPipe, ocp, writerClosed, sbPipe, sb, terr, serr >>

\* reader.Read returns io.EOF once writer is closed: the goroutine closes the
\* builder's stdin and returns
IcpEOF ==
    /\ icp = "read"
    /\ writerClosed
    /\ icp' = "done"
    /\ sbStdinClosed' = TRUE
    /\ UNCHANGED << mainVars, tar, tarPipe, ocp, writerClosed, sbPipe, sb, terr, serr >>

InCopier == IcpWrite \/ IcpBrokenPipe \/ IcpEOF

(* The builder child: dcmd build [-t tag] - *)

\* the builder reads a chunk of its standard input
SbRead ==
    /\ sb.st = "run"
    /\ sb.got < sb.limit
    /\ sbPipe > 0
    /\ sbPipe' = sbPipe - 1
    /\ sb' = [sb EXCEPT !.got = @ + 1]
    /\ UNCHANGED << mainVars, tar, tarPipe, ocp, writerClosed, icp, sbStdinClosed, terr, serr >>

\* the builder reads end-of-stream and exits, with status 0 or not
SbEOF ==
    /\ sb.st = "run"
    /\ sb.got < sb.limit
    /\ sbPipe = 0
    /\ sbStdinClosed
    /\ \E s \in {"ok", "fail"} :
          sb' = [sb EXCEPT !.st = "exited", !.eof = TRUE, !.status = s]
    /\ UNCHANGED << mainVars, tar, tarPipe, ocp, writerClosed, icp, sbPipe, sbStdinClosed,
                    terr, serr >>

\* the builder exits without reading on, with status 0 or not
SbQuit ==
    /\ sb.st = "run"
    /\ sb.got = sb.limit
    /\ \E s \in {"ok", "fail"} : sb' = [sb EXCEPT !.st = "exited", !.status = s]
    /\ UNCHANGED << mainVars, tar, tarPipe, ocp, writerClosed, icp, sbPipe, sbStdinClosed,
                    terr, serr >>

Builder == SbRead \/ SbEOF \/ SbQuit

----------------------------------------------------------------------------

Next == Main \/ Tar \/ OutCopier \/ InCopier \/ Builder

Spec == Init /\ [][Next]_vars

\* the Go scheduler and the kernel run every goroutine and every child that
\* can take a step
Fairness ==
    /\ WF_vars(Main)
    /\ WF_vars(Tar)
    /\ WF_vars(OutCopier)
    /\ WF_vars(InCopier)
    /\ WF_vars(Builder)

FairSpec == Init /\ [][Next]_vars /\ Fairness

----------------------------------------------------------------------------
(* Runs that start at the rendering of the Dockerfile (line 323), for the   *)
(* configurations of up to MaxDirectives env and port directives.           *)

\* the sequences over S of length up to n
SeqsUpTo(S, n) == UNION { [1 .. k -> S] : k \in 0 .. n }

RenderDirectives ==
    { El("env", "FOO"), El("env", "BAR"), El("env", "GOOS"),
      El("port", <<8, 0>>), El("port", <<8, 0, 8, 0>>) }

\* main at line 323: the configuration was read and parsed, the build
\* directory made, GOOS and GOARCH set and the executable built
RenderInit ==
    /\ pc = "render"
    /\ \E f \in {"", "golang"} :
          opts = [Docker |-> "sdocker", Build |-> "", Keep |-> FALSE, Dry |-> FALSE,
                  From |-> f]
    /\ conf \in SeqsUpTo(RenderDirectives, MaxDirectives)
    /\ config = parseConfig(conf)
    /\ err = "nil"
    /\ ws = "exists"
    /\ deferRemove = TRUE
    /\ rendered = FALSE
    /\ dockerfile = << >>
    /\ \E h \in HostEnvs :
          hostenv = Setenv(Setenv(h, "GOOS", "linux"), "GOARCH", "amd64")
    /\ starts = [compile |-> 1, tar |-> 0, sbuild |-> 0]
    /\ logmsg = NoMsg
    /\ exitCode = -1
    /\ failSite = "none"
    /\ tar = NoProc
    /\ tarPipe = 0
    /\ ocp = "idle"
    /\ writerClosed = FALSE
    /\ icp = "idle"
    /\ sbPipe = 0
    /\ sbStdinClosed = FALSE
    /\ sb = NoBuilder
    /\ terr = "unset"
    /\ serr = "unset"

RenderNext == Render

RenderSpec == RenderInit /\ [][RenderNext]_vars

----------------------------------------------------------------------------
(* Runs that start at the validation of the configuration (line 232), for   *)
(* the configuration files of up to MaxDirectives directives.               *)

ParseDirectives ==
    { El("env", "FOO"), El("env", "BAR"), El("file", "a.txt"),
      El("port", <<8, 0>>), El("port", <<8, 0, 8, 0>>), El("port", <<6, 5, 5, 3, 5>>),
      El("port", <<0, 1, 0>>), El("port", <<0, 8, 0, 0>>),
      El("port", <<0>>), El("port", <<6, 5, 5, 3, 6>>), El("port", <<8, Letter>>),
      El("volume", "data") }

\* main at line 232: the options are parsed, the package is resolved and
\* hidalgo.cfg has been read
ParseInit ==
    /\ pc = "cfgcheck"
    /\ opts = [Docker |-> "sdocker", Build |-> "", Keep |-> FALSE, Dry |-> FALSE,
               From |-> ""]
    /\ conf \in SeqsUpTo(ParseDirectives, MaxDirectives)
    /\ config = EmptyConfig
    /\ err = "nil"
    /\ ws = "none"
    /\ deferRemove = FALSE
    /\ rendered = FALSE
    /\ dockerfile = << >>
    /\ hostenv \in HostEnvs
    /\ starts = [compile |-> 0, tar |-> 0, sbuild |-> 0]
    /\ logmsg = NoMsg
    /\ exitCode = -1
    /\ failSite = "none"
    /\ tar = NoProc
    /\ tarPipe = 0
    /\ ocp = "idle"
    /\ writerClosed = FALSE
    /\ icp = "idle"
    /\ sbPipe = 0
    /\ sbStdinClosed = FALSE
    /\ sb = NoBuilder
    /\ terr = "unset"
    /\ serr = "unset"

ParseNext == CheckConfig \/ ParseConfig

ParseSpec == ParseInit /\ [][ParseNext]_vars

----------------------------------------------------------------------------
(* Properties of the packaging step *)

\* the statements of main before the configuration has been validated
BeforeValidation == {"flags", "pkgname", "cfgread", "cfgcheck", "cfgparse"}

\* both children were started and the builder reads until end-of-stream
BuilderReadsAll == sb.st \in {"run", "exited"} /\ sb.limit = ReadAll

\* main is between tar.Start() and the check of the two results (line 434)
InPackaging == pc \in {"tar_start", "sb_start", "tar_wait", "close", "sb_wait"}

\* C1: StreamingPackager never deadlocks: in every run that reaches
\* packaging, whatever the archiver and the builder do, tar.Wait() and
\* sbuild.Wait() both return and main reaches the check of the two results.
\* Both waits can only return if, as long as main has not reached that check,
\* main, a child or a copy goroutine can take a step: a state where none can
\* is a run in which a wait never returns.
C1_NeverDeadlocks == InPackaging => ENABLED Next

\* C2: with pipes smaller than the archiver's output and a builder that
\* reads until end-of-stream, the packaging run completes under fair
\* scheduling: the archiver terminates, writer is closed, the builder
\* terminates after reading end-of-stream, and main reaches its end.
C2_SmallChannelCompletes ==
    (tar.st = "run" /\ tar.total > PipeCap /\ BuilderReadsAll)
        ~> (/\ tar.st = "exited"
            /\ writerClosed
            /\ sb.st = "exited"
            /\ sb.eof
            /\ pc = "exited")

\* a run in which the archiver wrote more than a pipe holds, the builder read
\* all of it up to end-of-stream, and main has ended
C2_Witness ==
    /\ pc = "exited"
    /\ tar.total > PipeCap
    /\ sb.limit = ReadAll
    /\ sb.eof
    /\ sb.got = tar.total

\* C3: writer is open as long as the archiver has not terminated: it is
\* closed only after tar.Wait() has returned (the tar child has exited and
\* all of its output has passed through writer), so the builder never reads
\* end-of-stream before it has received all the archiver's output.
C3_CloseAfterArchiver ==
    /\ writerClosed =>
          /\ terr # "unset"
          /\ tar.st \in {"exited", "nostart"}
          /\ tar.left = 0
          /\ tarPipe = 0
          /\ ocp \in {"done", "idle"}
    /\ sb.eof => writerClosed /\ sb.got = tar.total

\* the builder has read end-of-stream after an archive of several chunks
C3_Witness ==
    /\ writerClosed
    /\ tar.st = "exited"
    /\ tar.total > 1
    /\ sb.eof

\* C4: if the archiver fails after producing part of its output, and the
\* builder is reading its input, writer is still eventually closed after the
\* archiver's termination, the builder then reads end-of-stream and
\* sbuild.Wait() returns.
C4_ClosedAfterArchiverFailure ==
    (tar.st = "exited" /\ tar.status = "fail" /\ tar.total > 0 /\ BuilderReadsAll)
        ~> (writerClosed /\ terr = "exit" /\ sb.eof /\ serr # "unset")

\* the archiver failed after writing some chunks; the builder got them, read
\* end-of-stream, and sbuild.Wait() has returned
C4_Witness ==
    /\ tar.status = "fail"
    /\ tar.total > 0
    /\ sb.limit = ReadAll
    /\ sb.eof
    /\ sb.got = tar.total
    /\ terr = "exit"
    /\ serr # "unset"

\* both results are in and both are errors
BothFailed == terr \notin {"unset", "nil"} /\ serr \notin {"unset", "nil"}

\* C5 as stated: when both the archiver and the builder fail, the failure
\* reported is the builder's.
C5_BuilderPrimary ==
    (pc = "exited" /\ BothFailed) =>
        (failSite = "build" /\ logmsg.text = "Error performing build")

\* C5: when both the archiver and the builder fail, the failure reported is
\* the archiver's (line 434 tests terr first and exits), with the status of
\* a packaging failure; the builder's failure is not reported.
C5_ArchiverPrimary ==
    (pc = "exited" /\ BothFailed) =>
        /\ failSite = "archive"
        /\ logmsg = [text |-> "Error generating archive", cause |-> terr]
        /\ exitCode = ExitArchive

\* a run that ended with both children failed after running
C5_Witness ==
    /\ pc = "exited"
    /\ terr = "exit"
    /\ serr = "exit"

\* C6: when the builder fails and the archiver succeeds, the run terminates
\* with the packaging-failure status and the failure reported is the
\* builder's.
\* (While the run has not ended, it must be able to go on.)
C6_BuilderFailureReported ==
    (tar.st = "exited" /\ tar.status = "ok" /\ sb.st = "exited" /\ sb.status = "fail")
        => IF pc = "exited"
           THEN exitCode = ExitBuild /\ failSite = "build"
           ELSE ENABLED Next

\* C7: when the archiver fails and the builder does not, the run terminates
\* with the packaging-failure status, the failure reported is the
\* archiver's, and sbuild.Wait() has returned before it is reported.
\* (While the run has not ended, it must be able to go on.)
C7_ArchiverFailureReported ==
    (tar.st = "exited" /\ tar.status = "fail" /\ sb.st = "exited" /\ sb.status = "ok")
        => IF pc = "exited"
           THEN exitCode = ExitArchive /\ failSite = "archive" /\ serr = "nil"
           ELSE ENABLED Next

----------------------------------------------------------------------------
(* Properties of the pipeline *)

\* the configuration was read and found invalid: an element matches no rule
\* of the grammar, or a port is not in 1..65535
ConfigInvalid ==
    /\ pc \notin BeforeValidation
    /\ failSite \notin {"flags", "pkgname", "cfgread"}
    /\ ~CheckOK(conf) \/ ParseFails(conf)

\* C8: a stage failure ends the pipeline at once in a terminal failure
\* state and no later stage is started: after a configuration validation
\* failure (unknown directive or invalid port) the run has exited with the
\* configuration status, and the compiler, the manifest rendering, the
\* archiver and the builder have not been started.
C8_FailureStopsPipeline ==
    /\ failSite # "none" => pc = "exited"
    /\ ConfigInvalid =>
          /\ pc = "exited"
          /\ exitCode = ExitConfigCheck
          /\ starts.compile = 0
          /\ ~rendered
          /\ starts.tar = 0
          /\ starts.sbuild = 0

\* C9: the exit status of a failed run identifies the failing stage: no
\* exit site of another stage passes the same status to os.Exit.
C9_StatusIdentifiesStage ==
    (pc = "exited" /\ failSite # "none") =>
        \A site \in Sites :
            StageOf(site) # StageOf(failSite) => ExitStatus(site) # exitCode

\* C10 as stated: in dry-run mode, whatever the other options, once the
\* Dockerfile is rendered no archiver and no builder is started and the run
\* terminates with status 0.
C10_DryRunSucceeds ==
    (opts.Dry /\ rendered) =>
        /\ starts.tar = 0
        /\ starts.sbuild = 0
        /\ pc = "exited" => exitCode = 0

\* C10: in dry-run mode, once the Dockerfile is rendered no archiver and no
\* builder is ever started, and the run terminates: with status 0 when the
\* Docker command option is not empty, with the status of line 374 when it
\* is (the test of line 371 comes before the test of --dryrun).
C10_DryRunStartsNothing ==
    /\ [](opts.Dry /\ rendered => starts.tar = 0 /\ starts.sbuild = 0)
    /\ (opts.Dry /\ rendered /\ opts.Docker # "") ~> (pc = "exited" /\ exitCode = 0)
    /\ (opts.Dry /\ rendered /\ opts.Docker = "")
          ~> (pc = "exited" /\ exitCode = ExitDockerCmd /\ failSite = "dockercmd")

\* a dry run that rendered the Dockerfile and ended with status 0
C10_Witness ==
    /\ opts.Dry
    /\ rendered
    /\ pc = "exited"
    /\ exitCode = 0
    /\ starts.tar = 0

----------------------------------------------------------------------------
(* Properties of the workspace *)

\* C11: when retention was not requested, the workspace has been removed in
\* every terminal state of a run that created it: after a normal end and
\* after the failure of any later stage, for a temporary directory and for
\* a directory given with --builddir.
C11_WorkspaceRemoved ==
    (pc = "exited" /\ ~opts.Keep /\ ws # "none") => ws = "removed"

\* C12: when retention was requested (--keep), the workspace is never
\* removed: it still exists in every terminal state.
C12_KeepRetains ==
    opts.Keep => ws # "removed"

----------------------------------------------------------------------------
(* Properties of the failure report and of the external commands *)

\* C18: when the builder fails, the message logged names the build and
\* carries the builder's own error (the result of sbuild.Wait()) as its
\* cause, not an error of an earlier stage and not an empty error.
C18_BuildMessageCarriesCause ==
    (pc = "exited" /\ failSite = "build") =>
        /\ logmsg.text = "Error performing build"
        /\ logmsg.cause = serr
        /\ logmsg.cause # "nil"

\* C20: no external command is retried: the compiler, the archiver and the
\* builder are each started at most once in a run, also after one of them
\* has failed.
C20_StartedAtMostOnce ==
    /\ starts.compile <= 1
    /\ starts.tar <= 1
    /\ starts.sbuild <= 1

\* a run that started all three commands and ended on the archiver's failure
C20_Witness ==
    /\ pc = "exited"
    /\ failSite = "archive"
    /\ terr = "exit"
    /\ starts = [compile |-> 1, tar |-> 1, sbuild |-> 1]

----------------------------------------------------------------------------
(* Properties of the Dockerfile *)

\* the lines of the Dockerfile with the given instruction
LinesOf(k) == SelectSeq(dockerfile, LAMBDA l : l.kind = k)

\* the places of those lines in the Dockerfile
PlacesOf(k) == { i \in 1 .. Len(dockerfile) : dockerfile[i].kind = k }

\* the declared names that are set in the environment
DeclaredAndSet ==
    { config.Env[i] : i \in { j \in 1 .. Len(config.Env) : hostenv[config.Env[j]] # "" } }

\* the first place of a name among the env directives
FirstDeclared(n) ==
    CHOOSE i \in 1 .. Len(config.Env) :
        config.Env[i] = n /\ \A j \in 1 .. i - 1 : config.Env[j] # n

\* the place of a name in the byte order of names
Rank(n) == CHOOSE i \in 1 .. Len(EnvNames) : EnvNames[i] = n

\* the Dockerfile has one ENV line for each declared name that is set
OneEnvLinePerEntry ==
    /\ Len(LinesOf("ENV")) = Cardinality(DeclaredAndSet)
    /\ { LinesOf("ENV")[i].arg : i \in 1 .. Len(LinesOf("ENV")) } = DeclaredAndSet

\* C14 as stated: the Dockerfile has one ENV line per entry of the
\* environment snapshot, and these lines come in the order in which the env
\* directives were declared.
C14_EnvLinesInDeclaredOrder ==
    rendered =>
        /\ OneEnvLinePerEntry
        /\ \A i, j \in 1 .. Len(LinesOf("ENV")) :
              i < j => FirstDeclared(LinesOf("ENV")[i].arg)
                         < FirstDeclared(LinesOf("ENV")[j].arg)

\* C14: the Dockerfile has one ENV line per entry of the environment
\* snapshot (one per declared name that is set, a name declared twice
\* giving one line), and these lines come in ascending order of the
\* variable name, whatever the order of the env directives.
C14_EnvLinesInNameOrder ==
    rendered =>
        /\ OneEnvLinePerEntry
        /\ \A i, j \in 1 .. Len(LinesOf("ENV")) :
              i < j => Rank(LinesOf("ENV")[i].arg) < Rank(LinesOf("ENV")[j].arg)

\* FOO declared before BAR, both set: the Dockerfile has BAR, then FOO
C14_Witness ==
    /\ rendered
    /\ config.Env = << "FOO", "BAR" >>
    /\ Len(LinesOf("ENV")) = 2
    /\ LinesOf("ENV")[1].arg = "BAR"

\* C16: a declared name that is not set in the environment at render time
\* gives no ENV line, no ENV line has an empty value, and a declared name
\* that is set gives a line carrying its value.
C16_UnsetNamesOmitted ==
    rendered =>
        /\ \A i \in 1 .. Len(config.Env) :
              IF hostenv[config.Env[i]] = ""
              THEN \A k \in 1 .. Len(LinesOf("ENV")) :
                      LinesOf("ENV")[k].arg # config.Env[i]
              ELSE \E k \in 1 .. Len(LinesOf("ENV")) :
                      /\ LinesOf("ENV")[k].arg = config.Env[i]
                      /\ LinesOf("ENV")[k].val = hostenv[config.Env[i]]
        /\ \A k \in 1 .. Len(LinesOf("ENV")) : LinesOf("ENV")[k].val # ""

\* FOO and BAR declared, FOO set and BAR not: one ENV line, for FOO
C16_Witness ==
    /\ rendered
    /\ config.Env = << "FOO", "BAR" >>
    /\ hostenv["FOO"] = "baz"
    /\ hostenv["BAR"] = ""
    /\ LinesOf("ENV") = << Line("ENV", "FOO", "baz") >>

\* C19: the Dockerfile has one EXPOSE line per entry of Config.Ports, in
\* declared order, a port declared twice giving two lines; the EXPOSE lines
\* come after the ENV lines and before the one CMD line.
C19_ExposeLinesFollowPorts ==
    rendered =>
        /\ Len(LinesOf("EXPOSE")) = Len(config.Ports)
        /\ \A i \in 1 .. Len(config.Ports) : LinesOf("EXPOSE")[i].arg = config.Ports[i]
        /\ \A e \in PlacesOf("ENV"), x \in PlacesOf("EXPOSE") : e < x
        /\ PlacesOf("CMD") = { Len(dockerfile) }

\* port 80 declared twice after a set FOO: ENV FOO, then EXPOSE 80 twice
C19_Witness ==
    /\ rendered
    /\ config.Ports = << 80, 80 >>
    /\ Len(LinesOf("ENV")) = 1
    /\ Len(LinesOf("EXPOSE")) = 2

----------------------------------------------------------------------------
(* Properties of the configuration *)

\* the number a string of decimal digits denotes
Decimal(s) == DigitsValue(s, 10, 0)

\* the names of the directives of one kind, in the order of the file
NamesOfKind(k) ==
    [i \in 1 .. Len(SelectSeq(conf, LAMBDA e : e.rule = k)) |->
        SelectSeq(conf, LAMBDA e : e.rule = k)[i].name]

\* the validation of the configuration (lines 232-243) is over
Validated == pc \notin {"cfgcheck", "cfgparse"}

\* a port directive whose text is not a number, or denotes 0 or more than 65535
HasBadPort ==
    \E i \in 1 .. Len(conf) :
        /\ conf[i].rule = "port"
        /\ \/ ~IsDigits(conf[i].name)
           \/ Decimal(conf[i].name) < 1
           \/ Decimal(conf[i].name) > 65535

\* only env, port and file directives, every port a number in 1..65535
WellFormed ==
    \A i \in 1 .. Len(conf) :
        /\ conf[i].rule \in {"env", "port", "file"}
        /\ conf[i].rule = "port" =>
              /\ IsDigits(conf[i].name)
              /\ Decimal(conf[i].name) >= 1
              /\ Decimal(conf[i].name) <= 65535

\* C13: a port directive whose value is 0, 65536 or larger, or whose text
\* is not a number, makes the validation fail, and the run then terminates
\* with the configuration-invalid status.
C13_BadPortEndsRun ==
    (Validated /\ HasBadPort) =>
        /\ pc = "exited"
        /\ exitCode = ExitConfigCheck
        /\ logmsg.text = "Error in configuration"

\* C15: for every configuration of env, port and file directives whose
\* ports are all in 1..65535, parseConfig succeeds and the Config has one
\* port per port directive, each in 1..65535 and equal to the directive's
\* number, duplicates kept, in the order of the file; likewise the env names
\* and the file paths.
C15_WellFormedAccepted ==
    (Validated /\ WellFormed) =>
        /\ err = "nil"
        /\ failSite = "none"
        /\ Len(config.Ports) = Len(NamesOfKind("port"))
        /\ \A i \in 1 .. Len(config.Ports) :
              /\ config.Ports[i] = Decimal(NamesOfKind("port")[i])
              /\ config.Ports[i] >= 1
              /\ config.Ports[i] <= 65535
        /\ config.Env = NamesOfKind("env")
        /\ config.Files = NamesOfKind("file")

----------------------------------------------------------------------------
(* Properties of a child that fails to start *)

\* tar.Start() or sbuild.Start() has failed
StartFailed == tar.st = "nostart" \/ sb.st = "nostart"

\* C21: a failure to start the archiver or the builder does not hang the
\* packager: tar.Wait() and sbuild.Wait() both return and the run
\* terminates with the packaging-failure status.
\* (While the run has not ended, it must be able to go on.)
C21_StartFailureEndsRun ==
    StartFailed =>
        IF pc = "exited"
        THEN /\ terr # "unset"
             /\ serr # "unset"
             /\ failSite \in {"archive", "build"}
             /\ exitCode = ExitBuild
        ELSE ENABLED Next

----------------------------------------------------------------------------
(* Properties of the port numbers *)

\* the text is a string of decimal digits that denotes a value in 1..65535
DecimalPort(s) == IsDigits(s) /\ Decimal(s) >= 1 /\ Decimal(s) <= 65535

\* C22: every port directive whose text is a string of decimal digits
\* denoting a value in 1..65535, leading zeros included, is accepted by
\* parseConfig and its stored port is the decimal value of the text (a
\* directive that follows one parseConfig had to reject is not looked at).
C22_DecimalPortStored ==
    (Validated /\ CheckOK(conf)) =>
        \A i \in 1 .. Len(NamesOfKind("port")) :
            (\A j \in 1 .. i : DecimalPort(NamesOfKind("port")[j])) =>
                /\ Len(config.Ports) >= i
                /\ config.Ports[i] = Decimal(NamesOfKind("port")[i])

====
